---- MODULE Spec2Model ----
(***************************************************************************)
(* The conversion job pipeline of the physics-diagram converter backend:   *)
(* routers/upload.py, routers/convert.py, routers/export.py and the        *)
(* services they call (datikz_service, render_service, pdf_service).       *)
(*                                                                         *)
(* Strings that the code takes apart are modelled by their parts: an id or *)
(* file name is a sequence of characters (the extension is one character), *)
(* a path or url is the sequence of its "/"-separated segments.  An        *)
(* Optional value is the empty sequence (None) or a one-element sequence.  *)
(***************************************************************************)
EXTENDS Integers, Sequences, FiniteSets, Bags, TLC

\* ---- bounds of the model ----
MaxTasks == 2
MaxClock == 1

\* ---- Optional[...] ----
None == << >>
Some(v) == << v >>

\* ---- models.py ----
PENDING == "pending"
PROCESSING == "processing"
COMPLETED == "completed"
FAILED == "failed"

\* ---- input alphabets ----
\* the ids uuid4 may draw
FileIds == {<<"a", "b">>}
\* ids a client may put in a request: the empty string, a proper prefix of
\* an uploaded id, an uploaded id, and an id that is never uploaded
ReqIds == {<< >>, <<"a">>, <<"a", "b">>, <<"b", "b">>}
Extensions == {<<".png">>}
ContentTypes == {"image/png", "application/pdf"}
DiagramTypes == {"mechanics", "quantum"}
Titles == {Some("T")}
ConvertErrors == {"bad scan"}
Exceptions == {"boom"}

\* ---- config.py ----
upload_dir == "uploads"
output_dir == "outputs"
allowed_types == {"image/png", "image/jpeg", "image/jpg"}

VARIABLES
    uploads,             \* file names present in settings.upload_dir
    conversion_results,  \* convert.py: the in-memory job registry
    tasks,               \* bag of the background tasks that have not returned
    submitted,           \* number of background tasks added so far
    resubmitted,         \* job ids for which convert_diagram was accepted
                         \* when they already had a record
    renders,             \* number of render ids RenderService has drawn
    clock,               \* datetime.now(), in whole seconds
    resp                 \* what the last handler or task step returned / did

vars == <<uploads, conversion_results, tasks, submitted, resubmitted, renders,
          clock, resp>>

\* ---- string helpers ----
\* str.startswith
StartsWith(s, p) == Len(p) <= Len(s) /\ SubSeq(s, 1, Len(p)) = p
\* os.path.join(dir, name)
PathJoin(dir, name) == <<dir, name>>
\* os.path.basename(path) and url.split("/")[-1]
LastSegment(path) == path[Len(path)]
\* truthiness of an Optional[str]: None and "" are false
Truthy(opt) == opt # None /\ opt[1] # << >>

\* ---- the response / step record ----
NoResp ==
    [op |-> "init", id |-> << >>, code |-> 0, status |-> "",
     tikz_code |-> None, preview_url |-> None, error_message |-> None,
     filename |-> None, pdf_url |-> None, pdf_calls |-> << >>]

\* ---- the registry (convert.py:13-14) ----
\* dict.update(fields) on one record: the given keys are overwritten, the
\* others keep their value
DictUpdate(rec, fields) == fields @@ rec

\* conversion_results[key].update(fields); a missing key raises KeyError and
\* nothing is written
RegistryUpdate_firstWins(results, key, fields) ==
    IF key \in DOMAIN results /\ results[key].status = PROCESSING
    THEN [results EXCEPT ![key] = DictUpdate(@, fields)]
    ELSE results
RegistryUpdate(results, key, fields) ==
    IF key \in DOMAIN results
    THEN [results EXCEPT ![key] = DictUpdate(@, fields)]
    ELSE results

\* convert.py:41-46, the record convert_diagram stores
InitialRecord_pending ==
    [status |-> PENDING, tikz_code |-> None, preview_url |-> None,
     error_message |-> None]
InitialRecord ==
    [status |-> PROCESSING, tikz_code |-> None, preview_url |-> None,
     error_message |-> None]

\* convert.py:119-122 and 146-149, the fields written on failure
FailedFields_statusOnly(message) == [status |-> FAILED]
FailedFields_default(message) ==
    [status |-> FAILED, error_message |-> Some("Conversion failed")]
FailedFields_processing(message) ==
    [status |-> PROCESSING, error_message |-> Some(message)]
FailedFields(message) ==
    [status |-> FAILED, error_message |-> Some(message)]

\* convert.py:41, conversion_results[conversion_id] = {...}: the key is bound
\* to a new record whether or not it was bound before
RegistryCreate_setdefault(results, key, rec) ==
    [k \in DOMAIN results \cup {key} |->
       IF k \in DOMAIN results THEN results[k] ELSE rec]
RegistryCreate_rebind(results, key, rec) == [k \in {key} |-> rec]
RegistryCreate(results, key, rec) ==
    [k \in DOMAIN results \cup {key} |->
       IF k = key THEN rec ELSE results[k]]

\* convert.py:136-140, the fields written on completion
CompletedFields_strict(tikz_code, preview_url) ==
    [status |-> IF preview_url = None THEN FAILED ELSE COMPLETED,
     tikz_code |-> Some(tikz_code), preview_url |-> preview_url]
CompletedFields(tikz_code, preview_url) ==
    [status |-> COMPLETED, tikz_code |-> Some(tikz_code),
     preview_url |-> preview_url]

\* ---- upload.py: upload_diagram ----
\* f"{file_id}{file_extension}"
UploadFilename(file_id, ext) == file_id \o ext

Upload(content_type, too_large) ==
    /\ IF content_type \notin allowed_types \/ too_large
       THEN /\ resp' = [NoResp EXCEPT !.op = "upload", !.code = 400]
            /\ UNCHANGED uploads
       ELSE \E file_id \in FileIds, ext \in Extensions :
               \* uuid4: an id no stored file carries
               /\ \A f \in uploads : ~StartsWith(f, file_id)
               /\ uploads' = uploads \cup {UploadFilename(file_id, ext)}
               /\ resp' = [NoResp EXCEPT !.op = "upload", !.code = 200,
                                         !.id = file_id]
    /\ UNCHANGED <<conversion_results, tasks, submitted, resubmitted, renders,
                   clock>>

\* ---- convert.py: convert_diagram ----
\* the files the loop of lines 31-34 can stop at; os.listdir gives the
\* directory in arbitrary order, so any matching file may be the first
Resolve_any(image_id, files) == files
Resolve(image_id, files) == {f \in files : StartsWith(f, image_id)}

\* the task added by background_tasks.add_task (lines 49-56).  Up to its
\* first await (line 112) process_conversion touches nothing shared, so a task
\* is born waiting for the conversion provider.
NewTask_template(conversion_id, image_path, diagram_type) ==
    [cid |-> conversion_id, image_path |-> image_path,
     diagram_type |-> diagram_type, pc |-> "rendering",
     tikz_code |-> Some("tikz:general")]
NewTask(conversion_id, image_path, diagram_type) ==
    [cid |-> conversion_id, image_path |-> image_path,
     diagram_type |-> diagram_type, pc |-> "converting", tikz_code |-> None]

\* background_tasks.add_task(process_conversion, ...), once per request
AddTask_twice(running, task) ==
    (running (+) SetToBag({task})) (+) SetToBag({task})
AddTask(running, task) == running (+) SetToBag({task})

Convert(image_id) ==
    /\ IF Resolve(image_id, uploads) = {}
       THEN /\ resp' = [NoResp EXCEPT !.op = "convert", !.id = image_id,
                                      !.code = 404]
            /\ UNCHANGED <<conversion_results, tasks, submitted, resubmitted>>
       ELSE /\ submitted < MaxTasks
            /\ \E filename \in Resolve(image_id, uploads),
                  diagram_type \in DiagramTypes :
                 LET image_path == PathJoin(upload_dir, filename)
                     conversion_id == image_id
                 IN /\ conversion_results' =
                         RegistryCreate(conversion_results, conversion_id,
                                        InitialRecord)
                    /\ tasks' = AddTask(tasks,
                         NewTask(conversion_id, image_path, diagram_type))
                    /\ submitted' = submitted + 1
                    /\ resubmitted' =
                         IF conversion_id \in DOMAIN conversion_results
                         THEN resubmitted \cup {conversion_id}
                         ELSE resubmitted
                    /\ resp' = [NoResp EXCEPT !.op = "convert",
                                  !.id = conversion_id, !.code = 200,
                                  !.status = PROCESSING]
    /\ UNCHANGED <<uploads, renders, clock>>

\* ---- convert.py: get_conversion_status ----
GetStatus_consume(conversion_id) ==
    /\ IF conversion_id \notin DOMAIN conversion_results
       THEN /\ resp' = [NoResp EXCEPT !.op = "get", !.id = conversion_id,
                                      !.code = 404]
            /\ UNCHANGED conversion_results
       ELSE LET result == conversion_results[conversion_id]
            IN /\ resp' = [NoResp EXCEPT !.op = "get", !.id = conversion_id,
                             !.code = 200, !.status = result.status,
                             !.tikz_code = result.tikz_code,
                             !.preview_url = result.preview_url,
                             !.error_message = result.error_message]
               /\ conversion_results' =
                    IF result.status \in {COMPLETED, FAILED}
                    THEN [k \in DOMAIN conversion_results \ {conversion_id}
                            |-> conversion_results[k]]
                    ELSE conversion_results
    /\ UNCHANGED <<uploads, tasks, submitted, resubmitted, renders, clock>>
GetStatus(conversion_id) ==
    /\ IF conversion_id \notin DOMAIN conversion_results
       THEN resp' = [NoResp EXCEPT !.op = "get", !.id = conversion_id,
                                   !.code = 404]
       ELSE LET result == conversion_results[conversion_id]
            IN resp' = [NoResp EXCEPT !.op = "get", !.id = conversion_id,
                          !.code = 200, !.status = result.status,
                          !.tikz_code = result.tikz_code,
                          !.preview_url = result.preview_url,
                          !.error_message = result.error_message]
    /\ UNCHANGED <<uploads, conversion_results, tasks, submitted, resubmitted,
                   renders, clock>>

\* ---- datikz_service.py ----
\* _mock_conversion: templates.get(diagram_type, templates["general"])
MockConversion(diagram_type) ==
    IF diagram_type \in {"mechanics", "electricity", "optics", "general"}
    THEN "tikz:" \o diagram_type
    ELSE "tikz:general"

\* convert_image_to_tikz: read_error is None when the image file was read,
\* else the message of the exception caught at line 56
ConvertImageToTikz(diagram_type, read_error) ==
    IF read_error = None
    THEN [success |-> TRUE, tikz_code |-> MockConversion(diagram_type),
          error |-> ""]
    ELSE [success |-> FALSE, tikz_code |-> "", error |-> read_error[1]]

\* ---- render_service.py ----
\* _create_placeholder: the name of the file written for a format
PlaceholderName(render_id, format) ==
    IF format = "pdf" THEN <<render_id, ".pdf">> ELSE <<render_id, ".png">>

\* render_tikz: write_ok is FALSE when writing the files raised
RenderTikz(render_id, format, write_ok) ==
    IF write_ok
    THEN [success |-> TRUE,
          output_path |-> PathJoin(output_dir, PlaceholderName(render_id, format))]
    ELSE [success |-> FALSE, output_path |-> << >>]

\* convert.py:130-133
PreviewUrl_dropped(render_result) == None
PreviewUrl(render_result) ==
    IF render_result.success
    THEN Some(<<"", "api", "outputs", LastSegment(render_result.output_path)>>)
    ELSE None

\* ---- convert.py: process_conversion ----
\* the registry key a task writes to: its conversion_id argument
TaskKey_file(task) ==
    LET filename == LastSegment(task.image_path)
    IN SubSeq(filename, 1, Len(filename) - 1)
TaskKey(task) == task.cid

\* what a step of a task did: its name, its key and the markup it holds
TaskStep(task, name) ==
    [NoResp EXCEPT !.op = name, !.id = task.cid, !.tikz_code = task.tikz_code]

\* the bag of tasks after one of them moved on / returned
Moved(task, new) == (tasks (-) SetToBag({task})) (+) SetToBag({new})
Returned(task) == tasks (-) SetToBag({task})

\* lines 107-128: the conversion provider returned
ConvertReturn_early(task, read_error) ==
    /\ task.pc = "converting"
    /\ LET result == ConvertImageToTikz(task.diagram_type, read_error)
       IN IF ~result.success
          THEN /\ conversion_results' =
                    RegistryUpdate(conversion_results, TaskKey(task),
                                   FailedFields(result.error))
               /\ tasks' = Returned(task)
               /\ resp' = [TaskStep(task, "convert_failed") EXCEPT
                             !.error_message = Some(result.error)]
          ELSE /\ tasks' = Moved(task, [task EXCEPT !.pc = "rendering",
                                    !.tikz_code = Some(result.tikz_code)])
               /\ resp' = TaskStep(task, "convert_ok")
               /\ conversion_results' =
                    RegistryUpdate(conversion_results, TaskKey(task),
                                   [tikz_code |-> Some(result.tikz_code)])
    /\ UNCHANGED <<uploads, submitted, resubmitted, renders, clock>>
ConvertReturn(task, read_error) ==
    /\ task.pc = "converting"
    /\ LET result == ConvertImageToTikz(task.diagram_type, read_error)
       IN IF ~result.success
          THEN /\ conversion_results' =
                    RegistryUpdate(conversion_results, TaskKey(task),
                                   FailedFields(result.error))
               /\ tasks' = Returned(task)
               /\ resp' = [TaskStep(task, "convert_failed") EXCEPT
                             !.error_message = Some(result.error)]
          ELSE /\ tasks' = Moved(task, [task EXCEPT !.pc = "rendering",
                                    !.tikz_code = Some(result.tikz_code)])
               /\ resp' = TaskStep(task, "convert_ok")
               /\ UNCHANGED conversion_results
    /\ UNCHANGED <<uploads, submitted, resubmitted, renders, clock>>

\* lines 130-142: the render provider returned
RenderReturn_retry(task, write_ok) ==
    /\ task.pc = "rendering"
    /\ LET render_result == RenderTikz(renders + 1, "png", write_ok)
           preview_url == PreviewUrl(render_result)
       IN IF write_ok
          THEN /\ conversion_results' =
                    RegistryUpdate(conversion_results, TaskKey(task),
                                   CompletedFields(task.tikz_code[1],
                                                   preview_url))
               /\ tasks' = Returned(task)
               /\ resp' = TaskStep(task, "render_ok")
          ELSE /\ UNCHANGED <<conversion_results, tasks>>
               /\ resp' = TaskStep(task, "render_failed")
    /\ renders' = renders + 1
    /\ UNCHANGED <<uploads, submitted, resubmitted, clock>>
RenderReturn(task, write_ok) ==
    /\ task.pc = "rendering"
    /\ LET render_result == RenderTikz(renders + 1, "png", write_ok)
           preview_url == PreviewUrl(render_result)
       IN /\ conversion_results' =
               RegistryUpdate(conversion_results, TaskKey(task),
                              CompletedFields(task.tikz_code[1], preview_url))
          /\ resp' = TaskStep(task, IF write_ok THEN "render_ok"
                                                ELSE "render_failed")
    /\ renders' = renders + 1
    /\ tasks' = Returned(task)
    /\ UNCHANGED <<uploads, submitted, resubmitted, clock>>

\* lines 144-149: an exception raised while a provider call is awaited
TaskRaises_silent(task, e) ==
    /\ task.pc \in {"converting", "rendering"}
    /\ tasks' = Returned(task)
    /\ resp' = [TaskStep(task, "task_raised") EXCEPT
                  !.error_message = Some(e)]
    /\ UNCHANGED <<uploads, conversion_results, submitted, resubmitted,
                   renders, clock>>
TaskRaises(task, e) ==
    /\ task.pc \in {"converting", "rendering"}
    /\ conversion_results' =
         RegistryUpdate(conversion_results, TaskKey(task), FailedFields(e))
    /\ tasks' = Returned(task)
    /\ resp' = [TaskStep(task, "task_raised") EXCEPT
                  !.error_message = Some(e)]
    /\ UNCHANGED <<uploads, submitted, resubmitted, renders, clock>>

\* ---- pdf_service.py: create_diagram_pdf ----
\* lines 42-43: f"diagram_{timestamp}.pdf", the timestamp in whole seconds
PdfFilename(now) == <<"diagram_", now, ".pdf">>

CreateDiagramPdf(now, build_ok) ==
    IF build_ok
    THEN [success |-> TRUE, filename |-> Some(PdfFilename(now))]
    ELSE [success |-> FALSE, filename |-> None]

\* ---- export.py: export_to_pdf ----
\* lines 28-44: the checks before the provider is called; 200 when all pass
ExportCheck_keyError(results, diagram_id) ==
    IF diagram_id \notin DOMAIN results THEN 500
    ELSE IF results[diagram_id].status # COMPLETED THEN 400
    ELSE IF ~Truthy(results[diagram_id].preview_url) THEN 404
    ELSE 200
ExportCheck_noStatus(results, diagram_id) ==
    IF diagram_id \notin DOMAIN results THEN 404
    ELSE IF ~Truthy(results[diagram_id].preview_url) THEN 404
    ELSE 200
ExportCheck_noPreview(results, diagram_id) ==
    IF diagram_id \notin DOMAIN results THEN 404
    ELSE IF results[diagram_id].status # COMPLETED THEN 400
    ELSE IF ~Truthy(results[diagram_id].preview_url) THEN 500
    ELSE 200
ExportCheck(results, diagram_id) ==
    IF diagram_id \notin DOMAIN results THEN 404
    ELSE IF results[diagram_id].status # COMPLETED THEN 400
    ELSE IF ~Truthy(results[diagram_id].preview_url) THEN 404
    ELSE 200

\* line 51: the tikz_code argument
ExportTikzArg_always(result, include_code) == result.tikz_code
ExportTikzArg(result, include_code) ==
    IF include_code THEN result.tikz_code ELSE None

\* lines 41-42
ExportImagePath(preview_url) ==
    PathJoin(output_dir, LastSegment(preview_url))

\* line 62
PdfUrl(filename) == <<"", "api", "export", "download", filename>>

Export(diagram_id) ==
    /\ LET code == ExportCheck(conversion_results, diagram_id)
       IN IF code # 200
          THEN resp' = [NoResp EXCEPT !.op = "export", !.id = diagram_id,
                                      !.code = code]
          ELSE \E include_code \in BOOLEAN, title \in Titles,
                  build_ok \in BOOLEAN :
                  LET result == conversion_results[diagram_id]
                      image_path == ExportImagePath(result.preview_url[1])
                      tikz_arg == ExportTikzArg(result, include_code)
                      pdf_result == CreateDiagramPdf(clock, build_ok)
                      call == [diagram_image_path |-> image_path,
                               tikz_code |-> tikz_arg, title |-> title,
                               include_code |-> include_code,
                               produced |-> pdf_result.filename]
                  IN resp' = IF pdf_result.success
                        THEN [NoResp EXCEPT !.op = "export",
                                !.id = diagram_id, !.code = 200,
                                !.filename = pdf_result.filename,
                                !.pdf_url = Some(PdfUrl(pdf_result.filename[1])),
                                !.pdf_calls = <<call>>]
                        ELSE [NoResp EXCEPT !.op = "export",
                                !.id = diagram_id, !.code = 500,
                                !.pdf_calls = <<call>>]
    /\ UNCHANGED <<uploads, conversion_results, tasks, submitted, resubmitted,
                   renders, clock>>

\* ---- the clock read by datetime.now() ----
Tick ==
    /\ clock < MaxClock
    /\ clock' = clock + 1
    /\ resp' = [NoResp EXCEPT !.op = "tick"]
    /\ UNCHANGED <<uploads, conversion_results, tasks, submitted, resubmitted,
                   renders>>

\* ---- the system ----
Init ==
    /\ uploads = {}
    /\ conversion_results = << >>
    /\ tasks = EmptyBag
    /\ submitted = 0
    /\ resubmitted = {}
    /\ renders = 0
    /\ clock = 0
    /\ resp = NoResp

Next ==
    \/ \E ct \in ContentTypes, big \in BOOLEAN : Upload(ct, big)
    \/ \E image_id \in ReqIds : Convert(image_id)
    \/ \E cid \in ReqIds : GetStatus(cid)
    \/ \E task \in BagToSet(tasks),
          err \in {None} \cup {Some(e) : e \in ConvertErrors} :
         ConvertReturn(task, err)
    \/ \E task \in BagToSet(tasks), ok \in BOOLEAN : RenderReturn(task, ok)
    \/ \E task \in BagToSet(tasks), e \in Exceptions : TaskRaises(task, e)
    \/ \E did \in ReqIds : Export(did)
    \/ Tick

Spec == Init /\ [][Next]_vars

\* a step of some running process_conversion task: a provider call returns or
\* raises
TaskNext ==
    \E task \in BagToSet(tasks) :
       \/ \E err \in {None} \cup {Some(e) : e \in ConvertErrors} :
            ConvertReturn(task, err)
       \/ \E ok \in BOOLEAN : RenderReturn(task, ok)
       \/ \E e \in Exceptions : TaskRaises(task, e)

\* the handlers and the task steps with the wall clock held still: the clock
\* is read only for the file name of an export (pdf_service.py:42) and no
\* handler or task step waits on it
LiveNext ==
    \/ \E ct \in ContentTypes, big \in BOOLEAN : Upload(ct, big)
    \/ \E image_id \in ReqIds : Convert(image_id)
    \/ \E cid \in ReqIds : GetStatus(cid)
    \/ \E task \in BagToSet(tasks),
          err \in {None} \cup {Some(e) : e \in ConvertErrors} :
         ConvertReturn(task, err)
    \/ \E task \in BagToSet(tasks), ok \in BOOLEAN : RenderReturn(task, ok)
    \/ \E task \in BagToSet(tasks), e \in Exceptions : TaskRaises(task, e)
    \/ \E did \in ReqIds : Export(did)

\* the event loop runs every task added with add_task, and every awaited
\* provider call comes back: while a task is running, one of them steps
FairSpec == Init /\ [][LiveNext]_vars /\ WF_vars(TaskNext)

\* ---- properties ----
Terminal(status) == status \in {COMPLETED, FAILED}
\* an execution body for the id has been scheduled and has not returned
InFlight(id) == \E task \in BagToSet(tasks) : task.cid = id
Record(id) == conversion_results[id]
\* the step just taken is an accepted submit-conversion for the id
Accepted(r, id) == r.op = "convert" /\ r.code = 200 /\ r.id = id

\* C1: a submit-conversion for an image id that resolves to an uploaded file
\* returns status Processing, and no get-job ever returns Pending (no record
\* ever has that status).
C1_SubmitProcessingNeverPending ==
    /\ (resp.op = "convert" /\ \E f \in uploads : StartsWith(f, resp.id))
         => /\ resp.code = 200
            /\ resp.status = PROCESSING
            /\ Record(resp.id).status = PROCESSING
    /\ (resp.op = "get" /\ resp.code = 200) => resp.status # PENDING
    /\ \A id \in DOMAIN conversion_results : Record(id).status # PENDING

\* a poll after an accepted submit, answered Processing
C1_Witness ==
    resp.op = "get" /\ resp.code = 200 /\ resp.status = PROCESSING

\* C2 (as claimed): once a record is Completed or Failed, no step changes its
\* status.
C2_TerminalNeverChanges ==
    [][\A id \in DOMAIN conversion_results :
         Terminal(Record(id).status)
           => conversion_results'[id].status = Record(id).status]_vars

\* C2 (amended): the status of a Completed or Failed record changes only when
\* a submit-conversion for its id is accepted, which makes it Processing, or
\* when an execution body still in flight for its id writes its own terminal
\* status; with nothing in flight and no new submit it never changes, and
\* get-job, export-job and the steps of other jobs leave it alone.
C2_TerminalStableUnlessResubmitted ==
    [][\A id \in DOMAIN conversion_results :
         (/\ Terminal(Record(id).status)
          /\ conversion_results'[id].status # Record(id).status)
           => \/ /\ Accepted(resp', id)
                 /\ conversion_results'[id].status = PROCESSING
              \/ /\ InFlight(id)
                 /\ resp'.op \in {"convert_failed", "render_ok",
                                  "render_failed", "task_raised"}
                 /\ resp'.id = id
                 /\ Terminal(conversion_results'[id].status)]_vars

\* a terminal record with nothing in flight is polled while another job runs
C2_Witness ==
    /\ resp.op = "get" /\ resp.code = 200 /\ Terminal(resp.status)
    /\ ~InFlight(resp.id)
    /\ tasks # EmptyBag

\* C3 (as claimed): after the conversion provider failed in an execution
\* body, the record is Failed with markup and artifactRef unset.
C3_ConvertFailureLeavesNoResult ==
    resp.op = "convert_failed"
      => /\ Record(resp.id).status = FAILED
         /\ Record(resp.id).tikz_code = None
         /\ Record(resp.id).preview_url = None

\* C4: when the conversion provider succeeded and the render provider failed,
\* the record is Completed with the conversion output as markup and no
\* artifactRef.
C4_RenderFailureStillCompleted ==
    resp.op = "render_failed"
      => /\ Record(resp.id).status = COMPLETED
         /\ resp.tikz_code \in {Some(MockConversion(dt)) : dt \in DiagramTypes}
         /\ Record(resp.id).tikz_code = resp.tikz_code
         /\ Record(resp.id).preview_url = None

C4_Witness ==
    resp.op = "render_failed" /\ Record(resp.id).status = COMPLETED

\* C5: when both providers succeeded, the record is Completed, its markup is
\* the conversion output and its artifactRef leads to the file the render
\* provider wrote for this execution.
C5_BothSucceedCompletedWithBoth ==
    resp.op = "render_ok"
      => /\ Record(resp.id).status = COMPLETED
         /\ resp.tikz_code \in {Some(MockConversion(dt)) : dt \in DiagramTypes}
         /\ Record(resp.id).tikz_code = resp.tikz_code
         /\ Record(resp.id).preview_url # None
         /\ PathJoin(output_dir, LastSegment(Record(resp.id).preview_url[1]))
              = RenderTikz(renders, "png", TRUE).output_path

C5_Witness ==
    /\ resp.op = "render_ok"
    /\ Record(resp.id).tikz_code = Some(MockConversion("mechanics"))
    /\ Record(resp.id).preview_url = Some(<<"", "api", "outputs", <<1, ".png">>>>)

\* C6: a submit-conversion whose image id is the prefix of no uploaded file
\* name answers NotFound, creates no record, schedules no task and leaves the
\* registry as it was.
C6_UnresolvedSubmitChangesNothing ==
    [][(resp'.op = "convert" /\ \A f \in uploads : ~StartsWith(f, resp'.id))
         => /\ resp'.code = 404
            /\ conversion_results' = conversion_results
            /\ tasks' = tasks
            /\ submitted' = submitted]_vars

\* a rejected submit while the registry holds a record
C6_Witness ==
    /\ resp.op = "convert" /\ resp.code = 404
    /\ resp.id \notin DOMAIN conversion_results
    /\ DOMAIN conversion_results # {}

\* C7: export-job on an id without a record answers NotFound and does not
\* call the export provider.
C7_ExportUnknownJobNotFound ==
    (resp.op = "export" /\ resp.id \notin DOMAIN conversion_results)
      => resp.code = 404 /\ resp.pdf_calls = << >>

C7_Witness ==
    /\ resp.op = "export" /\ resp.id \notin DOMAIN conversion_results
    /\ DOMAIN conversion_results # {}

\* C8: export-job on a record whose status is not Completed answers
\* InvalidState (400) and does not call the export provider, whatever markup
\* or artifactRef the record carries.
C8_ExportNotCompletedInvalidState ==
    (/\ resp.op = "export"
     /\ resp.id \in DOMAIN conversion_results
     /\ Record(resp.id).status # COMPLETED)
      => resp.code = 400 /\ resp.pdf_calls = << >>

\* export of a Failed record that still carries an artifactRef
C8_Witness ==
    /\ resp.op = "export"
    /\ resp.id \in DOMAIN conversion_results
    /\ Record(resp.id).status = FAILED
    /\ Record(resp.id).preview_url # None
    /\ resp.code = 400

\* C9: export-job on a Completed record without artifactRef answers NotFound
\* and does not call the export provider.
C9_ExportWithoutArtifactNotFound ==
    (/\ resp.op = "export"
     /\ resp.id \in DOMAIN conversion_results
     /\ Record(resp.id).status = COMPLETED
     /\ Record(resp.id).preview_url = None)
      => resp.code = 404 /\ resp.pdf_calls = << >>

C9_Witness ==
    /\ resp.op = "export"
    /\ resp.id \in DOMAIN conversion_results
    /\ Record(resp.id).status = COMPLETED
    /\ Record(resp.id).preview_url = None

\* C10: export-job on a Completed record with an artifactRef calls the export
\* provider exactly once, with the file rendered for that record and with the
\* stored markup exactly when include_code is set (None otherwise); it
\* returns the document the provider produced, and it neither schedules a
\* task nor touches the registry.
C10_ExportCallsProviderOnce ==
    [][(/\ resp'.op = "export"
        /\ resp'.id \in DOMAIN conversion_results
        /\ Record(resp'.id).status = COMPLETED
        /\ Record(resp'.id).preview_url # None)
         => /\ Len(resp'.pdf_calls) = 1
            /\ LET call == resp'.pdf_calls[1]
                   job == Record(resp'.id)
               IN /\ \E n \in 1..renders :
                       /\ job.preview_url = PreviewUrl(RenderTikz(n, "png", TRUE))
                       /\ call.diagram_image_path
                            = RenderTikz(n, "png", TRUE).output_path
                  /\ call.tikz_code
                       = IF call.include_code THEN job.tikz_code ELSE None
                  /\ call.include_code => call.tikz_code # None
                  /\ IF call.produced # None
                     THEN /\ resp'.code = 200
                          /\ resp'.filename = call.produced
                          /\ resp'.pdf_url
                               = Some(<<"", "api", "export", "download",
                                        call.produced[1]>>)
                     ELSE resp'.code = 500
            /\ tasks' = tasks
            /\ submitted' = submitted
            /\ conversion_results' = conversion_results]_vars

\* a successful export without the markup
C10_Witness ==
    /\ resp.op = "export" /\ resp.code = 200
    /\ Len(resp.pdf_calls) = 1
    /\ ~resp.pdf_calls[1].include_code
    /\ resp.pdf_calls[1].tikz_code = None
    /\ Record(resp.id).tikz_code # None

\* the fields of a record are those one execution body leaves behind: a
\* completed one its markup and no error, a failed one its error and nothing
\* else
Coherent(rec) ==
    /\ Terminal(rec.status)
    /\ rec.status = COMPLETED
         => rec.tikz_code # None /\ rec.error_message = None
    /\ rec.status = FAILED
         => /\ rec.error_message # None
            /\ rec.tikz_code = None
            /\ rec.preview_url = None

\* C11 (as claimed): when every execution body scheduled for a job id has
\* finished, also after two overlapping submits of that id, its record holds
\* one coherent terminal outcome: status, markup, artifactRef and errorMessage
\* all written by a single execution.
C11_OneCoherentOutcome ==
    \A id \in DOMAIN conversion_results :
       ~InFlight(id) => Coherent(Record(id))

\* C12: when the conversion provider fails with a message, the record becomes
\* Failed with exactly that message as errorMessage, and the execution body
\* ends there: it leaves the set of running tasks without the render provider
\* having been invoked.
C12_ConvertFailureFailsWithoutRender ==
    [][resp'.op = "convert_failed"
         => /\ resp'.error_message \in {Some(e) : e \in ConvertErrors}
            /\ conversion_results'[resp'.id].status = FAILED
            /\ conversion_results'[resp'.id].error_message
                 = resp'.error_message
            /\ renders' = renders
            /\ \E task \in BagToSet(tasks) :
                  /\ task.cid = resp'.id
                  /\ task.pc = "converting"
                  /\ tasks' = tasks (-) SetToBag({task})]_vars

\* the provider failed with "bad scan" and the job's last execution is over
C12_Witness ==
    /\ resp.op = "convert_failed"
    /\ resp.error_message = Some("bad scan")
    /\ Record(resp.id).error_message = Some("bad scan")
    /\ ~InFlight(resp.id)

\* C13: get-job changes nothing but its own response: the registry, the
\* stored files and the running tasks are as before; what it returns is the
\* record as stored; and a poll that directly follows a poll of the same id
\* returns the same snapshot.
C13_GetJobReadsOnly ==
    [][resp'.op = "get"
         => /\ UNCHANGED <<uploads, conversion_results, tasks, submitted,
                           renders, clock>>
            /\ resp'.code = 200 <=> resp'.id \in DOMAIN conversion_results
            /\ resp'.code = 200
                 => /\ resp'.status = Record(resp'.id).status
                    /\ resp'.tikz_code = Record(resp'.id).tikz_code
                    /\ resp'.preview_url = Record(resp'.id).preview_url
                    /\ resp'.error_message = Record(resp'.id).error_message
            /\ (resp.op = "get" /\ resp.id = resp'.id) => resp' = resp]_vars

\* a completed record with an artifact has been polled and is still stored
C13_Witness ==
    /\ resp.op = "get" /\ resp.code = 200
    /\ resp.status = COMPLETED
    /\ resp.preview_url # None
    /\ resp.id \in DOMAIN conversion_results
    /\ Record(resp.id).preview_url = resp.preview_url

\* C14: when an accepted submit-conversion returns {jobId, Processing}, the
\* record it wrote is Processing with markup, artifactRef and errorMessage
\* unset, and the execution body it scheduled has not yet passed its first
\* step.
C14_SubmitReturnsBeforeExecution ==
    (resp.op = "convert" /\ resp.code = 200)
      => /\ resp.status = PROCESSING
         /\ Record(resp.id).status = PROCESSING
         /\ Record(resp.id).tikz_code = None
         /\ Record(resp.id).preview_url = None
         /\ Record(resp.id).error_message = None
         /\ \E task \in BagToSet(tasks) :
               /\ task.cid = resp.id
               /\ task.pc = "converting"
               /\ task.tikz_code = None

\* a submit returns while an earlier execution of the same id is rendering
C14_Witness ==
    /\ resp.op = "convert" /\ resp.code = 200
    /\ \E task \in BagToSet(tasks) :
          task.cid = resp.id /\ task.pc = "rendering"

\* C15: an error raised while the execution body runs ends that execution
\* like a return: the task leaves the running set, its record is Failed with
\* the exception's message as errorMessage, and no other record is touched.
C15_RaisedErrorRecordedAsFailed ==
    [][resp'.op = "task_raised"
         => /\ resp'.error_message \in {Some(e) : e \in Exceptions}
            /\ conversion_results'[resp'.id].status = FAILED
            /\ conversion_results'[resp'.id].error_message
                 = resp'.error_message
            /\ \E task \in BagToSet(tasks) :
                  /\ task.cid = resp'.id
                  /\ tasks' = tasks (-) SetToBag({task})
            /\ DOMAIN conversion_results' = DOMAIN conversion_results
            /\ \A id \in DOMAIN conversion_results \ {resp'.id} :
                  conversion_results'[id] = conversion_results[id]]_vars

\* the render provider raised after the conversion had succeeded
C15_Witness ==
    /\ resp.op = "task_raised"
    /\ resp.tikz_code # None
    /\ Record(resp.id).status = FAILED
    /\ Record(resp.id).error_message = Some("boom")

\* C16: under fair scheduling of the execution bodies, whenever an execution
\* for a job id is in flight, eventually none is and the record is Completed
\* or Failed; and a record with no execution in flight is never Processing.
C16_AcceptedSubmitReachesTerminal ==
    /\ \A id \in ReqIds :
          InFlight(id)
            ~> (/\ ~InFlight(id)
                /\ id \in DOMAIN conversion_results
                /\ Terminal(Record(id).status))
    /\ [](\A id \in DOMAIN conversion_results :
             ~InFlight(id) => Record(id).status # PROCESSING)

\* every accepted submit has been served: two were made, nothing is running
\* and the record is terminal
C16_Witness ==
    /\ submitted >= 2
    /\ tasks = EmptyBag
    /\ \E id \in DOMAIN conversion_results : Terminal(Record(id).status)

\* C17 (as claimed): a record whose preview_url is set has status Completed,
\* also when two executions of the same id interleave.
C17_PreviewOnlyOnCompleted ==
    \A id \in DOMAIN conversion_results :
       Record(id).preview_url # None => Record(id).status = COMPLETED

\* C18 (as claimed): a record whose errorMessage is set has status Failed.
C18_ErrorMessageOnlyOnFailed ==
    \A id \in DOMAIN conversion_results :
       Record(id).error_message # None => Record(id).status = FAILED

\* C19 (as claimed): once markup or artifactRef of a record is set, no update
\* by an execution body changes it.
C19_ResultFieldsImmutable ==
    [][resp'.op \in {"convert_ok", "convert_failed", "render_ok",
                     "render_failed", "task_raised"}
         => \A id \in DOMAIN conversion_results :
               /\ Record(id).tikz_code # None
                    => conversion_results'[id].tikz_code
                         = Record(id).tikz_code
               /\ Record(id).preview_url # None
                    => conversion_results'[id].preview_url
                         = Record(id).preview_url]_vars

\* C20 (as claimed): no two distinct job ids are at the same time Processing
\* with an execution in flight on the same stored image file.
C20_OneLiveConversionPerImage ==
    \A t1 \in BagToSet(tasks), t2 \in BagToSet(tasks) :
       (/\ t1.image_path = t2.image_path
        /\ Record(t1.cid).status = PROCESSING
        /\ Record(t2.cid).status = PROCESSING)
         => t1.cid = t2.cid

\* the steps in which an execution body ends
Finishing == {"convert_failed", "render_ok", "render_failed", "task_raised"}

\* C21: a record appears only through an accepted submit-conversion for its
\* id and is never removed: the set of job ids only grows, get-job for an id
\* that has a record answers 200, and every running execution body, and every
\* update one makes, has its record.
C21_RecordsOnlyCreatedNeverRemoved ==
    [][/\ DOMAIN conversion_results \subseteq DOMAIN conversion_results'
       /\ \A id \in DOMAIN conversion_results' \ DOMAIN conversion_results :
             Accepted(resp', id)
       /\ (resp'.op = "get" /\ resp'.id \in DOMAIN conversion_results)
            => resp'.code = 200
       /\ \A task \in BagToSet(tasks') :
             TaskKey(task) \in DOMAIN conversion_results'
       /\ resp'.op \in Finishing
            => resp'.id \in DOMAIN conversion_results]_vars

\* two job ids have a record and the one polled is terminal
C21_Witness ==
    /\ resp.op = "get" /\ resp.code = 200 /\ Terminal(resp.status)
    /\ Cardinality(DOMAIN conversion_results) >= 2

\* C22: an execution body is waiting for the render provider only after its
\* own conversion call returned success, and it renders the markup that call
\* returned; the completion is written only when the render call returns, by
\* the execution that made it, with that markup.
C22_StepsStrictlySequential ==
    [][/\ \A task \in BagToSet(tasks') :
             task.pc = "rendering"
               => \/ CopiesIn(task, tasks') <= CopiesIn(task, tasks)
                  \/ /\ resp'.op = "convert_ok"
                     /\ resp'.id = task.cid
                     /\ task.tikz_code
                          = Some(ConvertImageToTikz(task.diagram_type,
                                                    None).tikz_code)
                     /\ [task EXCEPT !.pc = "converting", !.tikz_code = None]
                          \in BagToSet(tasks)
       /\ resp'.op = "convert_ok" => conversion_results' = conversion_results
       /\ \A id \in DOMAIN conversion_results :
             (/\ conversion_results'[id] # conversion_results[id]
              /\ conversion_results'[id].status = COMPLETED)
               => /\ resp'.op \in {"render_ok", "render_failed"}
                  /\ resp'.id = id
                  /\ \E task \in BagToSet(tasks) :
                        /\ task.cid = id
                        /\ task.pc = "rendering"
                        /\ tasks' = tasks (-) SetToBag({task})
                        /\ conversion_results'[id].tikz_code
                             = task.tikz_code]_vars

\* a completion was written with the markup of a quantum diagram, for which
\* the conversion falls back to the general template
C22_Witness ==
    /\ resp.op = "render_ok"
    /\ resp.tikz_code = Some("tikz:general")
    /\ Record(resp.id).status = COMPLETED
    /\ Record(resp.id).tikz_code = resp.tikz_code

\* C23: each accepted submit-conversion adds exactly one execution body and
\* nothing else adds one; an execution calls the conversion provider once
\* (no step puts a task back to waiting for it), calls the render provider
\* once and only after a successful conversion, and ends at the first
\* failure: across all executions there are never more render calls than
\* executions that got past their conversion.
C23_NoRetries ==
    [][/\ (resp'.op = "convert" /\ resp'.code = 200)
            => \E task \in BagToSet(tasks') :
                  /\ task.cid = resp'.id
                  /\ task.pc = "converting"
                  /\ tasks' = tasks (+) SetToBag({task})
       /\ \A task \in BagToSet(tasks') :
             (/\ task.pc = "converting"
              /\ CopiesIn(task, tasks') > CopiesIn(task, tasks))
               => resp'.op = "convert" /\ resp'.code = 200
       /\ resp'.op = "convert_ok"
            => /\ BagCardinality(tasks') = BagCardinality(tasks)
               /\ renders' = renders
       /\ resp'.op = "convert_failed"
            => /\ BagCardinality(tasks') = BagCardinality(tasks) - 1
               /\ renders' = renders
               /\ \A task \in BagToSet(tasks') :
                     CopiesIn(task, tasks') <= CopiesIn(task, tasks)
       /\ resp'.op \in {"render_ok", "render_failed"}
            => /\ BagCardinality(tasks') = BagCardinality(tasks) - 1
               /\ renders' = renders + 1
       /\ resp'.op = "task_raised"
            => /\ BagCardinality(tasks') = BagCardinality(tasks) - 1
               /\ renders' = renders
       /\ renders' # renders => resp'.op \in {"render_ok", "render_failed"}
       /\ renders' + BagCardinality(tasks') <= submitted']_vars

\* a render call failed after another execution had rendered, and the failed
\* one is gone
C23_Witness ==
    /\ resp.op = "render_failed"
    /\ renders = 2
    /\ tasks = EmptyBag

\* the status an execution body writes when it ends with the given step
Outcome(op) ==
    IF op \in {"render_ok", "render_failed"} THEN COMPLETED ELSE FAILED

\* C24: an accepted submit for an id that has a record replaces that record,
\* whatever is in flight; an execution body that ends merges its fields into
\* the record its id has at that moment and sets the status to its own
\* outcome, whatever the record held and whichever execution was scheduled
\* first; and nothing else changes a status.  So once all executions of an id
\* have ended, the status is that of the one that ended last.
C24_LastFinisherWins ==
    [][/\ (resp'.op = "convert" /\ resp'.code = 200)
            => conversion_results'[resp'.id] = InitialRecord
       /\ resp'.op \in {"convert_failed", "task_raised"}
            => conversion_results'[resp'.id]
                 = [Record(resp'.id) EXCEPT
                      !.status = FAILED,
                      !.error_message = resp'.error_message]
       /\ resp'.op \in {"render_ok", "render_failed"}
            => /\ conversion_results'[resp'.id].status = COMPLETED
               /\ conversion_results'[resp'.id].tikz_code = resp'.tikz_code
               /\ conversion_results'[resp'.id].error_message
                    = Record(resp'.id).error_message
       /\ \A id \in DOMAIN conversion_results :
             conversion_results'[id].status # Record(id).status
               => \/ Accepted(resp', id)
                  \/ /\ resp'.op \in Finishing
                     /\ resp'.id = id
                     /\ conversion_results'[id].status = Outcome(resp'.op)]_vars

\* of two executions of a resubmitted id the one that ended last failed: the
\* record is Failed, over the markup the other had written
C24_Witness ==
    /\ resp.op \in {"convert_failed", "task_raised"}
    /\ resp.id \in resubmitted
    /\ ~InFlight(resp.id)
    /\ Record(resp.id).status = FAILED
    /\ Record(resp.id).tikz_code # None

\* C25: a Processing record has markup, artifactRef and errorMessage unset;
\* a successful conversion writes nothing to the registry; the step in which
\* an execution body ends is its one write, it sets a terminal status; and
\* the registry changes in no other step but an accepted submit.
C25_NoIntermediateWrites ==
    [][/\ \A id \in DOMAIN conversion_results' :
             conversion_results'[id].status = PROCESSING
               => /\ conversion_results'[id].tikz_code = None
                  /\ conversion_results'[id].preview_url = None
                  /\ conversion_results'[id].error_message = None
       /\ resp'.op = "convert_ok" => conversion_results' = conversion_results
       /\ resp'.op \in Finishing
            => /\ Terminal(conversion_results'[resp'.id].status)
               /\ \E task \in BagToSet(tasks) :
                     /\ task.cid = resp'.id
                     /\ tasks' = tasks (-) SetToBag({task})
       /\ conversion_results' # conversion_results
            => \/ resp'.op \in Finishing
               \/ resp'.op = "convert" /\ resp'.code = 200]_vars

\* a conversion has returned its markup; the task holds it and the record,
\* still Processing, does not
C25_Witness ==
    /\ resp.op = "convert_ok"
    /\ Record(resp.id).status = PROCESSING
    /\ Record(resp.id).tikz_code = None
    /\ \E task \in BagToSet(tasks) :
          task.cid = resp.id /\ task.pc = "rendering" /\ task.tikz_code # None

\* C26 (as claimed): two successful exports never return the same document
\* file name; stated for an export that directly follows another one, which
\* is when both can fall into the same clock second.
C26_ExportFilenamesUnique ==
    [][(/\ resp.op = "export" /\ resp.code = 200
        /\ resp'.op = "export" /\ resp'.code = 200)
         => /\ resp'.filename # resp.filename
            /\ resp'.pdf_url # resp.pdf_url]_vars

\* C27: a Completed record has its markup and a Failed record has its
\* errorMessage, in every state a reader can see, also while another
\* execution of the same id is still running.
C27_NoTornTerminalRecord ==
    \A id \in DOMAIN conversion_results :
       /\ Record(id).status = COMPLETED => Record(id).tikz_code # None
       /\ Record(id).status = FAILED => Record(id).error_message # None

\* a poll reads a Failed record with its message while another execution of
\* the id is still running
C27_Witness ==
    /\ resp.op = "get" /\ resp.code = 200
    /\ resp.status = FAILED
    /\ resp.error_message # None
    /\ InFlight(resp.id)

\* C28 (as claimed): when get-job reports Completed or Failed for a job id,
\* no execution body for that id is in flight.
C28_TerminalPollMeansNothingInFlight ==
    (resp.op = "get" /\ resp.code = 200 /\ Terminal(resp.status))
      => ~InFlight(resp.id)

\* the ids under which a stored file was uploaded
UploadedIds ==
    {file_id \in FileIds :
       \E ext \in Extensions : UploadFilename(file_id, ext) \in uploads}

\* C29 (as claimed): submit-conversion for a string that is not the id of an
\* uploaded file answers 404, and no record is keyed by such a string.
C29_OnlyExactIdsAccepted ==
    /\ (resp.op = "convert" /\ resp.id \notin UploadedIds) => resp.code = 404
    /\ DOMAIN conversion_results \subseteq UploadedIds

\* the execution bodies of an id among the running tasks, with multiplicity
Running(running, id) ==
    LET of_id == {task \in BagToSet(running) : task.cid = id}
    IN IF of_id = {} THEN 0
       ELSE IF \E task \in of_id :
                  of_id = {task} /\ CopiesIn(task, running) = 1
            THEN 1
            ELSE 2

\* C30: for a job id accepted exactly once, the record is Processing exactly
\* while its one execution body runs; the only change ever made to the record
\* after its creation is the step in which that execution ends, which takes
\* it from the created Processing record to a terminal one; from then on the
\* record stays as it is; and every poll returns the status the record has.
C30_SingleSubmitLifecycle ==
    [][\A id \in DOMAIN conversion_results' \ resubmitted' :
          /\ Running(tasks', id) <= 1
          /\ Running(tasks', id) = 1
               <=> conversion_results'[id].status = PROCESSING
          /\ conversion_results'[id].status
               \in {PROCESSING, COMPLETED, FAILED}
          /\ id \in DOMAIN conversion_results
               => /\ Terminal(Record(id).status)
                    => conversion_results'[id] = Record(id)
                  /\ conversion_results'[id] # Record(id)
                       => /\ Record(id).status = PROCESSING
                          /\ Record(id).tikz_code = None
                          /\ Record(id).preview_url = None
                          /\ Record(id).error_message = None
                          /\ Terminal(conversion_results'[id].status)
                          /\ resp'.op \in Finishing
                          /\ resp'.id = id
          /\ (resp'.op = "get" /\ resp'.id = id)
               => /\ resp'.code = 200
                  /\ resp'.status = conversion_results'[id].status]_vars

\* a job submitted once is polled terminal after another job was submitted
C30_Witness ==
    /\ resp.op = "get" /\ resp.code = 200 /\ Terminal(resp.status)
    /\ resp.id \notin resubmitted
    /\ submitted >= 2
    /\ tasks = EmptyBag

====
